---- MODULE Spec2Model ----
(***************************************************************************)
(* A model of jh-attendance (Flask + SQLAlchemy + Flask-Login): the        *)
(* session policy guard, login/logout, the attendance store and the        *)
(* streak computation of the youth list.                                   *)
(*                                                                         *)
(* Time is counted in minutes.  A client is one browser with its own       *)
(* signed session cookie; the database rows are shared by all clients.     *)
(***************************************************************************)
EXTENDS Integers, Sequences, FiniteSets, TLC

VARIABLES
    users,        \* table users: id -> row
    youth,        \* table youth: cedula -> row
    services,     \* table services: id -> row
    attendance,   \* table attendance: set of rows
    nextUserId,   \* autoincrement of users.id
    nextServiceId,\* autoincrement of services.id
    nextAttId,    \* autoincrement of attendance.id
    session,      \* client -> the client's Flask session (cookie)
    inflight,     \* client -> the request the client has in progress
    resp,         \* the last response sent: client, route, guard outcome, result
    now,          \* the clock
    nextToken,    \* the next value secrets.token_urlsafe returns
    issued,       \* history: user id -> the tokens the user's logins wrote, in order
    requests,     \* the number of requests handled so far (DataSpec)
    gin, gout,    \* input and result of one guard evaluation (GuardSpec)
    sin, sout     \* input and result of one streak computation (StreakSpec)

vars == << users, youth, services, attendance, nextUserId, nextServiceId,
           nextAttId, session, inflight, resp, now, nextToken, issued,
           requests, gin, gout, sin, sout >>

dbVars == << users, youth, services, attendance, nextUserId, nextServiceId,
             nextAttId >>
pureVars == << gin, gout, sin, sout >>

-----------------------------------------------------------------------------
(* Configuration *)

IDLE_MINUTES == 15
MAX_SERVICES_FOR_STREAK == 200
SYSTEM_USER == "system"

-----------------------------------------------------------------------------
(* Bounds of the model *)

\* the clock stops at MaxTime
MaxTime == 31
\* tokens secrets.token_urlsafe hands out before logins stop
MaxTokens == 2
\* the clock values a drawn guard input spans beyond the idle threshold
GuardSlack == 2
\* token values a drawn guard input ranges over
GuardTokens == 2

\* service ids a drawn streak input ranges over
NumStreakServices == 4
\* services a drawn youth-list input holds
NumListServices == 4
\* the small configured value of MAX_SERVICES_FOR_STREAK a drawn input uses
SmallLimit == 2
\* rows the users, services and attendance tables grow to
MaxUsers == 3
MaxServices == 1
MaxMarks == 2
\* requests handled in one behaviour of the data routes
MaxRequests == 2

Clients == {"A", "B"}

\* Python's None, for ids and tokens (both are positive when present)
None == 0

-----------------------------------------------------------------------------
(* The Flask session of a client *)

\* session.get("last_activity"): absent, an ISO string, or any other string
NoLast == <<"none">>
BadLast == <<"bad">>

\* datetime.isoformat()
isoformat(t) == <<"iso", t>>

\* datetime.fromisoformat(): the datetime, or ValueError
fromisoformat(s) ==
    IF s[1] = "iso" THEN [ok |-> TRUE, dt |-> s[2]]
    ELSE [ok |-> FALSE, dt |-> 0]

\* session.clear() after logout_user(): no key is left
EmptySession ==
    [ user_id |-> None, session_token |-> None, last_activity |-> NoLast,
      permanent |-> FALSE, selected_service_id |-> None ]

\* Python truthiness of an optional token or id
Truthy(v) == v # None

-----------------------------------------------------------------------------
(* enforce_session_policies: the before_request guard, as a function of    *)
(* the request's session, of whether Flask-Login resolved a current_user,  *)
(* of that user's stored session_token, and of utcnow().                   *)

GuardResult(o, s, f, r) ==
    [ outcome |-> o, session |-> s, flash |-> f, redirect |-> r ]

\* variant: the idle check with >= in place of >
IdleExceededInclusive(t, last_dt) == (t - last_dt) >= IDLE_MINUTES

\* timedelta comparison of the idle check
IdleExceeded(t, last_dt) == (t - last_dt) > IDLE_MINUTES

\* variant: the single-session check without the two presence tests
TokenRejectedNullEqual(current_token, user_token) ==
    user_token # current_token

\* the condition of the single-session check
TokenRejected(current_token, user_token) ==
    \/ ~Truthy(current_token)
    \/ ~Truthy(user_token)
    \/ user_token # current_token

\* variant: the redirect to login without logging the session out
NotCleared(sess) == sess

\* logout_user(); session.clear()
Cleared(sess) == EmptySession

\* "if last:": whether the idle block is entered at all
HasLast(sess) == sess.last_activity # NoLast

\* variant: the guard lets the request through and leaves the session as it is
NotRefreshed(sess, t) == sess

\* session["last_activity"] = now.isoformat(); session.permanent = True
Refreshed(sess, t) ==
    [sess EXCEPT !.last_activity = isoformat(t), !.permanent = TRUE]

\* step 2 and the end of the guard: the single-session check
SingleSessionCheck(sess, user_token, t) ==
    IF TokenRejected(sess.session_token, user_token)
    THEN GuardResult("ForcedLogoutSuperseded", Cleared(sess), "elsewhere", TRUE)
    ELSE GuardResult("Authenticated", Refreshed(sess, t), "none", FALSE)

\* variant: "except: pass", the request goes on to the single-session check
MalformedTimestampIgnored(sess, user_token, t) ==
    SingleSessionCheck(sess, user_token, t)

\* the except branch of the idle block
MalformedTimestamp(sess, user_token, t) ==
    GuardResult("ForcedLogoutMalformed", Cleared(sess), "none", TRUE)

\* variant: the single-session check placed before the idle block
enforce_token_first(sess, authenticated, user_token, t) ==
    IF ~authenticated
    THEN GuardResult("Unauthenticated", sess, "none", FALSE)
    ELSE
      LET parsed == fromisoformat(sess.last_activity) IN
      IF TokenRejected(sess.session_token, user_token)
      THEN GuardResult("ForcedLogoutSuperseded", EmptySession, "elsewhere", TRUE)
      ELSE IF HasLast(sess) /\ ~parsed.ok
      THEN MalformedTimestamp(sess, user_token, t)
      ELSE IF HasLast(sess) /\ IdleExceeded(t, parsed.dt)
      THEN GuardResult("ForcedLogoutIdle", EmptySession, "inactivity", TRUE)
      ELSE GuardResult("Authenticated", Refreshed(sess, t), "none", FALSE)

enforce_session_policies(sess, authenticated, user_token, t) ==
    IF ~authenticated
    THEN GuardResult("Unauthenticated", sess, "none", FALSE)
    ELSE
      LET parsed == fromisoformat(sess.last_activity) IN
      IF HasLast(sess) /\ ~parsed.ok
      THEN MalformedTimestamp(sess, user_token, t)
      ELSE IF HasLast(sess) /\ IdleExceeded(t, parsed.dt)
      THEN GuardResult("ForcedLogoutIdle", Cleared(sess), "inactivity", TRUE)
      ELSE SingleSessionCheck(sess, user_token, t)

-----------------------------------------------------------------------------
(* The users table and Flask-Login *)

UserIds == 1..MaxUsers

\* werkzeug's generate_password_hash / check_password_hash
generate_password_hash(raw) == <<"hash", raw>>
check_password(row, raw) == row.password_hash = <<"hash", raw>>

UserRow(name, role, active, raw) ==
    [ username |-> name, role |-> role, is_active |-> active,
      password_hash |-> generate_password_hash(raw), session_token |-> None ]

\* load_user: the row of the session's _user_id, if there is one
Authenticated(c) ==
    /\ session[c].user_id # None
    /\ session[c].user_id \in DOMAIN users

UserToken(c) ==
    IF Authenticated(c) THEN users[session[c].user_id].session_token ELSE None

\* the guard on a request of client c, in the current state
Guard(c) ==
    enforce_session_policies(session[c], Authenticated(c), UserToken(c), now)

Idle(c) == inflight[c].op = "none"
NoRequest ==
    [ op |-> "none", user |-> None, token |-> None, guard |-> "none",
      service |-> None, cedula |-> << >> ]

Response(c, op, g, r) == [ client |-> c, op |-> op, guard |-> g, result |-> r ]

\* variant: a decorator that lets every role through
role_ignored(role, roles) == TRUE

\* role_required: current_user.role in roles
role_required(role, roles) == role \in roles

\* login_required and role_required, after the guard let the request through
Access(c, roles) ==
    LET g == Guard(c) IN
    IF g.redirect THEN "forced_logout"
    ELSE IF g.outcome = "Unauthenticated" THEN "login_required"
    ELSE IF ~role_required(users[session[c].user_id].role, roles)
         THEN "forbidden"
    ELSE "ok"

-----------------------------------------------------------------------------
(* login: POST /login.  The token write is committed before the session is *)
(* set up, and another request may run between the two.                    *)

\* variant: a generator that returns its previous value once more
token_repeated == IF nextToken > 1 THEN nextToken - 1 ELSE nextToken

\* secrets.token_urlsafe(32): a value never returned before
token_urlsafe == nextToken

login(c, username, password) ==
    /\ Idle(c)
    /\ LET g == Guard(c)
           found == { u \in DOMAIN users :
                        users[u].username = username /\ users[u].is_active }
       IN
       IF g.redirect
       THEN /\ session' = [session EXCEPT ![c] = g.session]
            /\ resp' = Response(c, "login", g.outcome, "login")
            /\ UNCHANGED << users, inflight, nextToken, issued >>
       ELSE IF found # {} /\ check_password(users[CHOOSE u \in found : TRUE], password)
       THEN LET user == CHOOSE u \in found : TRUE IN
            /\ nextToken <= MaxTokens
            /\ users' = [users EXCEPT ![user].session_token = token_urlsafe]
            /\ nextToken' = nextToken + 1
            /\ issued' = [issued EXCEPT ![user] = Append(@, token_urlsafe)]
            /\ inflight' = [inflight EXCEPT ![c] =
                              [ NoRequest EXCEPT !.op = "login", !.user = user,
                                  !.token = token_urlsafe, !.guard = g.outcome ]]
            /\ session' = [session EXCEPT ![c] = g.session]
            /\ UNCHANGED resp
       ELSE /\ session' = [session EXCEPT ![c] = g.session]
            /\ resp' = Response(c, "login", g.outcome, "invalid")
            /\ UNCHANGED << users, inflight, nextToken, issued >>
    /\ UNCHANGED << youth, services, attendance, nextUserId, nextServiceId,
                    nextAttId, now, pureVars >>

\* variant: the session takes the token from the reloaded user row
SessionTokenReloaded(c) ==
    IF inflight[c].user \in DOMAIN users
    THEN users[inflight[c].user].session_token
    ELSE inflight[c].token

\* session["session_token"] = token: the token this request generated
SessionTokenFor(c) == inflight[c].token

\* login_user(user) and the three session keys
login_session(c) ==
    /\ inflight[c].op = "login"
    /\ LET user == inflight[c].user
           token == SessionTokenFor(c)
       IN
       IF user \notin DOMAIN users
       THEN \* the row is gone: the refresh raises, the handler answers 500
            /\ resp' = Response(c, "login", inflight[c].guard, "error")
            /\ UNCHANGED session
       ELSE /\ session' = [session EXCEPT ![c] =
                  [ @ EXCEPT !.user_id = IF users[user].is_active THEN user ELSE @,
                             !.session_token = token,
                             !.last_activity = isoformat(now),
                             !.permanent = TRUE ]]
            /\ resp' = Response(c, "login", inflight[c].guard, "dashboard")
    /\ inflight' = [inflight EXCEPT ![c] = NoRequest]
    /\ UNCHANGED << dbVars, now, nextToken, issued, pureVars >>

-----------------------------------------------------------------------------
(* logout: GET /logout.  The guard reads the user row when the request     *)
(* starts; the handler writes it afterwards.                               *)

logout_guard(c) ==
    /\ Idle(c)
    /\ LET g == Guard(c) IN
       /\ session' = [session EXCEPT ![c] = g.session]
       /\ IF g.outcome = "Authenticated"
          THEN /\ inflight' = [inflight EXCEPT ![c] =
                      [ NoRequest EXCEPT !.op = "logout",
                                         !.user = session[c].user_id,
                                         !.guard = g.outcome ]]
               /\ UNCHANGED resp
          ELSE /\ resp' = Response(c, "logout", g.outcome, "login")
               /\ UNCHANGED inflight
    /\ UNCHANGED << dbVars, now, nextToken, issued, pureVars >>

\* variant: the row keeps its token
KeepToken(row) == row

\* session_token = None on a user row
ClearToken(row) == [row EXCEPT !.session_token = None]

logout(c) ==
    /\ inflight[c].op = "logout"
    /\ LET user == inflight[c].user IN
       users' = IF user \in DOMAIN users
                THEN [users EXCEPT ![user] = ClearToken(@)]
                ELSE users
    /\ session' = [session EXCEPT ![c] = EmptySession]
    /\ resp' = Response(c, "logout", "Authenticated", "logged_out")
    /\ inflight' = [inflight EXCEPT ![c] = NoRequest]
    /\ UNCHANGED << youth, services, attendance, nextUserId, nextServiceId,
                    nextAttId, now, nextToken, issued, pureVars >>

-----------------------------------------------------------------------------
(* dashboard: GET /, the plain guarded request *)

dashboard(c) ==
    /\ Idle(c)
    /\ LET g == Guard(c) IN
       /\ session' = [session EXCEPT ![c] = g.session]
       /\ resp' = Response(c, "dashboard", g.outcome,
               IF g.outcome = "Authenticated" THEN "dashboard" ELSE "login")
    /\ UNCHANGED << dbVars, inflight, now, nextToken, issued, pureVars >>

\* time passes: up to the idle threshold, or beyond it
TickSteps == {IDLE_MINUTES, IDLE_MINUTES + 1}

Tick ==
    /\ \E d \in TickSteps :
          /\ now + d <= MaxTime
          /\ now' = now + d
    /\ UNCHANGED << dbVars, session, inflight, resp, nextToken, issued, pureVars >>

-----------------------------------------------------------------------------
(* admin_users: POST /admin/users *)

admin_users_reset_password(c, user_id, new_password) ==
    /\ Idle(c)
    /\ LET g == Guard(c)
           a == Access(c, {"ROOT"})
       IN
       /\ session' = [session EXCEPT ![c] = g.session]
       /\ IF a = "ok" /\ new_password # "" /\ user_id \in DOMAIN users
          THEN /\ users' = [users EXCEPT ![user_id] =
                     ClearToken([@ EXCEPT !.password_hash =
                                    generate_password_hash(new_password)])]
               /\ resp' = Response(c, "reset_password", g.outcome, "password_reset")
          ELSE /\ UNCHANGED users
               /\ resp' = Response(c, "reset_password", g.outcome, a)
    /\ UNCHANGED << youth, services, attendance, nextUserId, nextServiceId,
                    nextAttId, inflight, now, nextToken, issued, pureVars >>

-----------------------------------------------------------------------------
(* Form values and their validation *)

Digits == {"0", "1", "2", "3", "4", "5", "6", "7", "8", "9"}
IsDigit(ch) == ch \in Digits

\* re.sub(r"\D", "", value or "")
digits_only(value) == SelectSeq(value, IsDigit)

validate_cedula(value) == Len(digits_only(value)) \in {8, 9}
validate_phone(value) == Len(digits_only(value)) = 8

\* parse_birth_date on the four kinds of input the form can send
parse_birth_date(value) ==
    CASE value = "" -> "none"
      [] value = "2010-05-01" -> "date"
      [] value = "2999-01-01" -> "future"
      [] OTHER -> "invalid"

\* two cedulas, of 8 and of 9 digits
Y1 == <<"1", "0", "0", "0", "0", "0", "0", "1">>
Y2 == <<"2", "0", "0", "0", "0", "0", "0", "0", "2">>

\* cedulas as typed into the forms, and as the youth routes carry them
Y1Dashed == <<"1", "0", "0", "0", "-", "0", "0", "0", "1">>
ShortCedula == <<"1", "2", "3">>
CedulaInputs == {Y1Dashed, Y2, ShortCedula}
CedulaKeys == {Y1, Y2}

Phone == <<"8", "8", "8", "8", "-", "0", "0", "0", "0">>

YouthRow(full_name, phone, bd) ==
    [ full_name |-> full_name, phone |-> phone, barrio_id |-> 1,
      birth_date |-> bd ]

-----------------------------------------------------------------------------
(* The attendance table *)

\* uq_service_youth: a row for the pair is already there
UniqueViolation(service_id, cedula) ==
    \E a \in attendance : a.service_id = service_id /\ a.youth_cedula = cedula

\* the foreign keys of an attendance row
ForeignKeysHold(service_id, cedula, user_id) ==
    /\ service_id \in DOMAIN services
    /\ cedula \in DOMAIN youth
    /\ user_id \in DOMAIN users

AttendanceRow(id, service_id, cedula, user_id, at) ==
    [ id |-> id, service_id |-> service_id, youth_cedula |-> cedula,
      registered_by |-> user_id, registered_at |-> at ]

\* variant: the lookup without its is_active filter
get_selected_any(sess) ==
    IF sess.selected_service_id \in DOMAIN services
    THEN sess.selected_service_id
    ELSE None

\* get_selected_service: the session's service, if it is still active
get_selected_service(sess) ==
    IF sess.selected_service_id = None THEN None
    ELSE IF /\ sess.selected_service_id \in DOMAIN services
            /\ services[sess.selected_service_id].is_active
         THEN sess.selected_service_id
         ELSE None

-----------------------------------------------------------------------------
(* Routes on youth, services and attendance.  Each runs the guard, then    *)
(* login_required and role_required, then the handler.                     *)

AllRoles == {"OPERATIVE", "ADMIN", "ROOT"}

\* variant: the form is saved without looking the cedula up
YouthNeverFound(cedula) == FALSE

\* Youth.query.get(cedula)
YouthFound(cedula) == cedula \in DOMAIN youth

youth_new(c, cedula_in, full_name, phone_in, birth_in) ==
    /\ Idle(c)
    /\ LET g == Guard(c)
           a == Access(c, AllRoles)
           cedula == digits_only(cedula_in)
           phone == digits_only(phone_in)
           valid == /\ a = "ok"
                    /\ full_name # ""
                    /\ validate_cedula(cedula)
                    /\ validate_phone(phone)
                    /\ parse_birth_date(birth_in) = "date"
           ok == valid /\ ~YouthFound(cedula)
       IN
       /\ session' = [session EXCEPT ![c] = g.session]
       /\ IF ok
          THEN /\ youth' = youth @@ (cedula :> YouthRow(full_name, phone, birth_in))
               /\ resp' = Response(c, "youth_new", g.outcome, "created")
          ELSE /\ UNCHANGED youth
               /\ resp' = Response(c, "youth_new", g.outcome,
                                   IF a # "ok" THEN a
                                   ELSE IF valid THEN "exists" ELSE "rejected")
    /\ UNCHANGED << users, services, attendance, nextUserId, nextServiceId,
                    nextAttId, inflight, now, nextToken, issued, pureVars >>

youth_edit(c, cedula, full_name, phone_in, birth_in) ==
    /\ Idle(c)
    /\ LET g == Guard(c)
           a == Access(c, AllRoles)
           phone == digits_only(phone_in)
           ok == /\ a = "ok"
                 /\ cedula \in DOMAIN youth
                 /\ full_name # ""
                 /\ validate_phone(phone)
                 /\ parse_birth_date(birth_in) = "date"
       IN
       /\ session' = [session EXCEPT ![c] = g.session]
       /\ IF ok
          THEN /\ youth' = [youth EXCEPT ![cedula] =
                     [ @ EXCEPT !.full_name = full_name, !.phone = phone,
                                !.barrio_id = 1, !.birth_date = birth_in ]]
               /\ resp' = Response(c, "youth_edit", g.outcome, "updated")
          ELSE /\ UNCHANGED youth
               /\ resp' = Response(c, "youth_edit", g.outcome,
                                   IF a = "ok" THEN "rejected" ELSE a)
    /\ UNCHANGED << users, services, attendance, nextUserId, nextServiceId,
                    nextAttId, inflight, now, nextToken, issued, pureVars >>

\* variant: the youth row is deleted and its marks are left behind
KeepMarks(att, cedula) == att

\* Attendance.query.filter_by(youth_cedula=cedula).delete(...)
DeleteMarks(att, cedula) == { x \in att : x.youth_cedula # cedula }

youth_delete(c, cedula) ==
    /\ Idle(c)
    /\ LET g == Guard(c)
           a == Access(c, {"ROOT"})
       IN
       /\ session' = [session EXCEPT ![c] = g.session]
       /\ IF a = "ok" /\ cedula \in DOMAIN youth
          THEN /\ attendance' = DeleteMarks(attendance, cedula)
               /\ youth' = [ k \in DOMAIN youth \ {cedula} |-> youth[k] ]
               /\ resp' = Response(c, "youth_delete", g.outcome, "deleted")
          ELSE /\ UNCHANGED << youth, attendance >>
               /\ resp' = Response(c, "youth_delete", g.outcome,
                                   IF a = "ok" THEN "not_found" ELSE a)
    /\ UNCHANGED << users, services, nextUserId, nextServiceId, nextAttId,
                    inflight, now, nextToken, issued, pureVars >>

admin_services_create(c, title, starts_at) ==
    /\ Idle(c)
    /\ LET g == Guard(c)
           a == Access(c, {"ADMIN", "ROOT"})
       IN
       /\ session' = [session EXCEPT ![c] = g.session]
       /\ IF a = "ok" /\ title # ""
          THEN /\ nextServiceId <= MaxServices
               /\ services' = services @@ (nextServiceId :>
                     [ title |-> title, starts_at |-> starts_at,
                       ends_at |-> None, is_active |-> FALSE,
                       created_by |-> session[c].user_id ])
               /\ nextServiceId' = nextServiceId + 1
               /\ resp' = Response(c, "admin_services", g.outcome, "created")
          ELSE /\ UNCHANGED << services, nextServiceId >>
               /\ resp' = Response(c, "admin_services", g.outcome,
                                   IF a = "ok" THEN "rejected" ELSE a)
    /\ UNCHANGED << users, youth, attendance, nextUserId, nextAttId, inflight,
                    now, nextToken, issued, pureVars >>

admin_services_toggle(c, service_id) ==
    /\ Idle(c)
    /\ LET g == Guard(c)
           a == Access(c, {"ADMIN", "ROOT"})
       IN
       /\ session' = [session EXCEPT ![c] = g.session]
       /\ IF a = "ok" /\ service_id \in DOMAIN services
          THEN /\ services' = [services EXCEPT ![service_id] =
                     [ @ EXCEPT !.is_active = ~@,
                                !.ends_at = IF ~services[service_id].is_active
                                            THEN None ELSE now ]]
               /\ resp' = Response(c, "admin_services", g.outcome, "toggled")
          ELSE /\ UNCHANGED services
               /\ resp' = Response(c, "admin_services", g.outcome,
                                   IF a = "ok" THEN "not_found" ELSE a)
    /\ UNCHANGED << users, youth, attendance, nextUserId, nextServiceId,
                    nextAttId, inflight, now, nextToken, issued, pureVars >>

set_service(c, service_id) ==
    /\ Idle(c)
    /\ LET g == Guard(c)
           a == Access(c, AllRoles)
           ok == /\ a = "ok"
                 /\ service_id \in DOMAIN services
                 /\ services[service_id].is_active
       IN
       /\ session' = [session EXCEPT ![c] =
             IF ok THEN [g.session EXCEPT !.selected_service_id = service_id]
             ELSE g.session]
       /\ resp' = Response(c, "set_service", g.outcome,
                           IF ok THEN "selected"
                           ELSE IF a = "ok" THEN "unavailable" ELSE a)
    /\ UNCHANGED << dbVars, inflight, now, nextToken, issued, pureVars >>

\* variant: the insert without the unique constraint
InsertAttendanceNoConstraint(service_id, cedula, user_id) ==
    /\ ForeignKeysHold(service_id, cedula, user_id)
    /\ nextAttId <= MaxMarks
    /\ attendance' = attendance \cup
          { AttendanceRow(nextAttId, service_id, cedula, user_id, now) }
    /\ nextAttId' = nextAttId + 1

\* db.session.add(att); db.session.commit(): the row goes in unless a
\* constraint refuses it, and then the handler rolls back
InsertAttendance(service_id, cedula, user_id) ==
    /\ ~UniqueViolation(service_id, cedula)
    /\ ForeignKeysHold(service_id, cedula, user_id)
    /\ nextAttId <= MaxMarks
    /\ attendance' = attendance \cup
          { AttendanceRow(nextAttId, service_id, cedula, user_id, now) }
    /\ nextAttId' = nextAttId + 1

attendance_register_active(c, cedula_in) ==
    /\ Idle(c)
    /\ LET g == Guard(c)
           a == Access(c, AllRoles)
           active == get_selected_service(session[c])
           cedula == digits_only(cedula_in)
           reached == /\ a = "ok"
                      /\ active # None
                      /\ validate_cedula(cedula)
                      /\ cedula \in DOMAIN youth
       IN
       /\ session' = [session EXCEPT ![c] = g.session]
       /\ IF reached
          THEN /\ inflight' = [inflight EXCEPT ![c] =
                      [ NoRequest EXCEPT !.op = "register",
                                         !.user = session[c].user_id,
                                         !.guard = g.outcome,
                                         !.service = active,
                                         !.cedula = cedula ]]
               /\ UNCHANGED resp
          ELSE /\ UNCHANGED inflight
               /\ resp' = Response(c, "register", g.outcome,
                     IF a # "ok" THEN a
                     ELSE IF active = None THEN "no_service"
                     ELSE IF ~validate_cedula(cedula) THEN "invalid_cedula"
                     ELSE "no_youth")
    /\ UNCHANGED << dbVars, now, nextToken, issued, pureVars >>

\* the try block: add, commit, and the rollback when the commit raises
attendance_register_commit(c) ==
    /\ inflight[c].op = "register"
    /\ LET r == inflight[c] IN
       \/ /\ InsertAttendance(r.service, r.cedula, r.user)
          /\ resp' = Response(c, "register", r.guard, "registered")
       \/ /\ \/ UniqueViolation(r.service, r.cedula)
             \/ ~ForeignKeysHold(r.service, r.cedula, r.user)
          /\ UNCHANGED << attendance, nextAttId >>
          /\ resp' = Response(c, "register", r.guard, "already")
    /\ inflight' = [inflight EXCEPT ![c] = NoRequest]
    /\ UNCHANGED << users, youth, services, nextUserId, nextServiceId,
                    session, now, nextToken, issued, pureVars >>

-----------------------------------------------------------------------------
(* Routes on users *)

admin_users_create(c, username, role, password) ==
    /\ Idle(c)
    /\ LET g == Guard(c)
           a == Access(c, {"ROOT"})
           ok == /\ a = "ok"
                 /\ username # "" /\ password # ""
                 /\ role \in {"ROOT", "ADMIN", "OPERATIVE"}
                 /\ ~\E u \in DOMAIN users : users[u].username = username
       IN
       /\ session' = [session EXCEPT ![c] = g.session]
       /\ IF ok
          THEN /\ nextUserId <= MaxUsers
               /\ users' = users @@
                     (nextUserId :> UserRow(username, role, TRUE, password))
               /\ nextUserId' = nextUserId + 1
               /\ resp' = Response(c, "admin_users", g.outcome, "created")
          ELSE /\ UNCHANGED << users, nextUserId >>
               /\ resp' = Response(c, "admin_users", g.outcome,
                                   IF a = "ok" THEN "rejected" ELSE a)
    /\ UNCHANGED << youth, services, attendance, nextServiceId, nextAttId,
                    inflight, now, nextToken, issued, pureVars >>

admin_users_toggle(c, user_id) ==
    /\ Idle(c)
    /\ LET g == Guard(c)
           a == Access(c, {"ROOT"})
           ok == /\ a = "ok"
                 /\ user_id \in DOMAIN users
                 /\ user_id # session[c].user_id
       IN
       /\ session' = [session EXCEPT ![c] = g.session]
       /\ IF ok
          THEN /\ users' = [users EXCEPT ![user_id].is_active = ~@]
               /\ resp' = Response(c, "admin_users", g.outcome, "toggled")
          ELSE /\ UNCHANGED users
               /\ resp' = Response(c, "admin_users", g.outcome,
                                   IF a = "ok" THEN "rejected" ELSE a)
    /\ UNCHANGED << youth, services, attendance, nextUserId, nextServiceId,
                    nextAttId, inflight, now, nextToken, issued, pureVars >>

\* the row get_or_create_system_user adds: no login, a random password
SystemUserRow == UserRow(SYSTEM_USER, "ROOT", FALSE, "random")

SystemUsers == { u \in DOMAIN users : users[u].username = SYSTEM_USER }

\* variant: the update without its filter, every mark goes to the system user
ReassignAll(att, user_id, system_id) ==
    { [x EXCEPT !.registered_by = system_id] : x \in att }

\* Attendance.query.filter_by(registered_by=u.id).update(...)
Reassign(att, user_id, system_id) ==
    { IF x.registered_by = user_id
      THEN [x EXCEPT !.registered_by = system_id]
      ELSE x : x \in att }

\* variant: a users table no foreign key refers to
NeverReferenced(user_id, att) == user_id \notin DOMAIN users

\* the rows that keep the delete of a users row from committing
UserReferenced(user_id, att) ==
    \/ \E sid \in DOMAIN services : services[sid].created_by = user_id
    \/ \E x \in att : x.registered_by = user_id

admin_user_delete(c, user_id) ==
    /\ Idle(c)
    /\ LET g == Guard(c)
           a == Access(c, {"ROOT"})
           reached == /\ a = "ok"
                      /\ user_id # session[c].user_id
                      /\ user_id \in DOMAIN users
                      /\ users[user_id].username # SYSTEM_USER
           create == SystemUsers = {}
           system_id == IF create THEN nextUserId
                        ELSE CHOOSE u \in SystemUsers : TRUE
           \* get_or_create_system_user commits the new row on its own
           users1 == IF create THEN users @@ (nextUserId :> SystemUserRow)
                     ELSE users
           att1 == Reassign(attendance, user_id, system_id)
       IN
       /\ session' = [session EXCEPT ![c] = g.session]
       /\ IF reached
          THEN /\ create => nextUserId <= MaxUsers
               /\ nextUserId' = IF create THEN nextUserId + 1 ELSE nextUserId
               /\ IF UserReferenced(user_id, att1)
                  THEN \* IntegrityError: rollback of the update and the delete
                       /\ users' = users1
                       /\ UNCHANGED attendance
                       /\ resp' = Response(c, "admin_user_delete", g.outcome, "failed")
                  ELSE /\ users' = [ u \in DOMAIN users1 \ {user_id} |-> users1[u] ]
                       /\ attendance' = att1
                       /\ resp' = Response(c, "admin_user_delete", g.outcome, "deleted")
          ELSE /\ UNCHANGED << users, attendance, nextUserId >>
               /\ resp' = Response(c, "admin_user_delete", g.outcome,
                                   IF a = "ok" THEN "rejected" ELSE a)
    /\ UNCHANGED << youth, services, nextServiceId, nextAttId, inflight, now,
                    nextToken, issued, pureVars >>

-----------------------------------------------------------------------------
(* Initial states *)

Usernames == {"root", "sara", SYSTEM_USER}
Passwords == {"pw"}

NoGuardInput == [ drawn |-> FALSE ]
NoStreakInput == [ drawn |-> FALSE ]
NoResponse == Response("none", "none", "none", "none")

\* the users after bootstrap.py and the creation of one more user
SeedUsers(role) ==
    (1 :> UserRow("root", "ROOT", TRUE, "pw")) @@
    (2 :> UserRow("sara", role, TRUE, "pw"))

NoResult == [ done |-> FALSE ]

InitPure ==
    /\ gin = NoGuardInput /\ gout = NoResult
    /\ sin = NoStreakInput /\ sout = NoResult

InitData ==
    /\ youth = << >>
    /\ services = << >>
    /\ attendance = {}
    /\ nextServiceId = 1
    /\ nextAttId = 1

\* nobody is logged in
InitApp ==
    /\ users = SeedUsers("OPERATIVE")
    /\ nextUserId = 3
    /\ InitData
    /\ session = [c \in Clients |-> EmptySession]
    /\ inflight = [c \in Clients |-> NoRequest]
    /\ resp = NoResponse
    /\ now = 0
    /\ nextToken = 1
    /\ issued = [u \in UserIds |-> << >>]
    /\ requests = 0

Init ==
    /\ InitApp
    /\ InitPure

Next ==
    \/ \E c \in Clients, n \in Usernames, p \in Passwords \cup {"wrong"} :
          login(c, n, p) /\ UNCHANGED requests
    \/ \E c \in Clients : login_session(c) /\ UNCHANGED requests
    \/ \E c \in Clients : logout_guard(c) /\ UNCHANGED requests
    \/ \E c \in Clients : logout(c) /\ UNCHANGED requests
    \/ \E c \in Clients : dashboard(c) /\ UNCHANGED requests
    \/ \E c \in Clients, u \in UserIds, p \in Passwords \cup {""} :
          admin_users_reset_password(c, u, p) /\ UNCHANGED requests
    \/ Tick /\ UNCHANGED requests

Spec == Init /\ [][Next]_vars

-----------------------------------------------------------------------------
(* The data routes, from the states of a database in use: root and sara   *)
(* are logged in, the youths and a service may exist, marks may have been  *)
(* taken and registrations may be in flight.                               *)

LoggedIn(user_id, token, t, selected) ==
    [ user_id |-> user_id, session_token |-> token,
      last_activity |-> isoformat(t), permanent |-> TRUE,
      selected_service_id |-> selected ]

\* who took the mark of a youth at service 1, None for no mark; Y1 was
\* marked by either user, Y2 by sara
SeedMarks == { m \in [ {Y1, Y2} -> {None, 1, 2} ] : m[Y2] # 1 }

SeedAttendance(m) ==
    LET first == IF m[Y1] = None THEN {} ELSE { AttendanceRow(1, 1, Y1, m[Y1], 0) }
        id2 == Cardinality(first) + 1
    IN first \cup (IF m[Y2] = None THEN {}
                   ELSE { AttendanceRow(id2, 1, Y2, m[Y2], 0) })

\* a registration of Y1 at service 1 that has passed its checks
Registering(user_id) ==
    [ NoRequest EXCEPT !.op = "register", !.user = user_id,
                       !.guard = "Authenticated", !.service = 1, !.cedula = Y1 ]

Seeds ==
    { [ service |-> sv, created_by |-> cb, marks |-> m, selected |-> sel,
        registering |-> rg ] :
      sv \in {"none", "ended", "active"}, cb \in {1, 2}, m \in SeedMarks,
      sel \in { [c \in Clients |-> v] : v \in {None, 1} },
      rg \in {{}, Clients} }

\* a seed is a state the routes lead to: marks and selections need the
\* service, a registration in flight needs the selection
SeedReachable(sd) ==
    /\ sd.service = "none" =>
          /\ sd.created_by = 1
          /\ \A y \in {Y1, Y2} : sd.marks[y] = None
          /\ \A c \in Clients : sd.selected[c] = None
    /\ \A c \in sd.registering : sd.selected[c] = 1
    /\ Cardinality({ y \in {Y1, Y2} : sd.marks[y] # None }) <= MaxMarks

\* both seeded users logged in, sara holding the given role, over one of
\* the given seeds
DataStart(role, seeds) ==
    /\ users = [ u \in {1, 2} |->
                  [SeedUsers(role)[u] EXCEPT !.session_token = u] ]
    /\ nextUserId = 3
    /\ youth = (Y1 :> YouthRow("Ana", digits_only(Phone), "2010-05-01")) @@
               (Y2 :> YouthRow("Ana", digits_only(Phone), "2010-05-01"))
    /\ now = IDLE_MINUTES
    /\ \E sd \in seeds :
          /\ SeedReachable(sd)
          /\ services = IF sd.service = "none" THEN << >>
                        ELSE 1 :> [ title |-> "Culto", starts_at |-> 0,
                                    ends_at |-> IF sd.service = "active"
                                                THEN None ELSE now,
                                    is_active |-> sd.service = "active",
                                    created_by |-> sd.created_by ]
          /\ nextServiceId = IF sd.service = "none" THEN 1 ELSE 2
          /\ attendance = SeedAttendance(sd.marks)
          /\ nextAttId = Cardinality(SeedAttendance(sd.marks)) + 1
          /\ session = ("A" :> LoggedIn(1, 1, 0, sd.selected["A"])) @@
                       ("B" :> LoggedIn(2, 2, 0, sd.selected["B"]))
          /\ inflight = ("A" :> IF "A" \in sd.registering
                                THEN Registering(1) ELSE NoRequest) @@
                        ("B" :> IF "B" \in sd.registering
                                THEN Registering(2) ELSE NoRequest)
    /\ resp = NoResponse
    /\ nextToken = 3
    /\ issued = [u \in UserIds |-> IF u \in {1, 2} THEN <<u>> ELSE << >>]
    /\ requests = 0
    /\ InitPure

DataInit == DataStart("ADMIN", Seeds)

\* what the forms send: valid submissions and one that fails validation
NewForms ==
    { [ cedula |-> Y1Dashed, full_name |-> "Ana" ],
      [ cedula |-> Y2, full_name |-> "Ana" ],
      [ cedula |-> ShortCedula, full_name |-> "Ana" ] }
EditNames == {"Ana Maria", ""}
ServiceIds == 1..MaxServices

\* one more request, while the behaviour has requests left
Counted ==
    /\ requests < MaxRequests
    /\ requests' = requests + 1

DataNext ==
    \/ \E c \in Clients, f \in NewForms :
          Counted /\ youth_new(c, f.cedula, f.full_name, Phone, "2010-05-01")
    \/ \E c \in Clients, k \in CedulaKeys, n \in EditNames :
          Counted /\ youth_edit(c, k, n, Phone, "2010-05-01")
    \/ \E c \in Clients, k \in CedulaKeys : Counted /\ youth_delete(c, k)
    \/ \E c \in Clients, title \in {"Culto", ""} :
          Counted /\ admin_services_create(c, title, now)
    \/ \E c \in Clients, sid \in ServiceIds :
          Counted /\ admin_services_toggle(c, sid)
    \/ \E c \in Clients, sid \in ServiceIds : Counted /\ set_service(c, sid)
    \/ \E c \in Clients, k \in CedulaInputs :
          Counted /\ attendance_register_active(c, k)
    \/ \E c \in Clients : Counted /\ attendance_register_commit(c)
    \/ \E c \in Clients, n \in {"ana", "sara"} :
          Counted /\ admin_users_create(c, n, "ADMIN", "pw")
    \/ \E c \in Clients, u \in UserIds : Counted /\ admin_users_toggle(c, u)
    \/ \E c \in Clients, u \in UserIds :
          Counted /\ admin_users_reset_password(c, u, "pw")
    \/ \E c \in Clients, u \in UserIds : Counted /\ admin_user_delete(c, u)
    \/ \E c \in Clients : Counted /\ logout_guard(c)
    \/ \E c \in Clients : Counted /\ logout(c)

DataSpec == DataInit /\ [][DataNext]_vars

\* the data routes with sara as OPERATIVE or ADMIN: services created by
\* root, no registration in flight, no mark of Y2
RoleSeeds ==
    { sd \in Seeds :
        sd.created_by = 1 /\ sd.registering = {} /\ sd.marks[Y2] = None }

RoleInit == \E role \in {"OPERATIVE", "ADMIN"} : DataStart(role, RoleSeeds)

RoleSpec == RoleInit /\ [][DataNext]_vars

-----------------------------------------------------------------------------
(* The login race alone: logins and guarded requests, no logout or reset *)

RaceNext ==
    \/ \E c \in Clients, n \in Usernames, p \in Passwords \cup {"wrong"} :
          login(c, n, p) /\ UNCHANGED requests
    \/ \E c \in Clients : login_session(c) /\ UNCHANGED requests
    \/ \E c \in Clients : dashboard(c) /\ UNCHANGED requests
    \/ Tick /\ UNCHANGED requests

RaceSpec == Init /\ [][RaceNext]_vars

-----------------------------------------------------------------------------
(* The guard as a function: one evaluation on a drawn request *)

GuardTimes == 0..(IDLE_MINUTES + GuardSlack)
GuardTokenValues == 0..GuardTokens

GuardInputs ==
    { [ drawn |-> TRUE,
        authenticated |-> a,
        session |-> [ user_id |-> IF a THEN 1 ELSE None,
                      session_token |-> tr,
                      last_activity |-> l,
                      permanent |-> l # NoLast,
                      selected_service_id |-> None ],
        user_token |-> tu,
        now |-> t ] :
      a \in BOOLEAN, tr \in GuardTokenValues, tu \in GuardTokenValues,
      l \in {NoLast, BadLast} \cup { isoformat(x) : x \in GuardTimes },
      t \in GuardTimes }

guard_apply ==
    /\ gin.drawn
    /\ ~gout.done
    /\ gout' = [ done |-> TRUE,
                 result |-> enforce_session_policies(
                       gin.session, gin.authenticated, gin.user_token, gin.now) ]
    /\ UNCHANGED << dbVars, session, inflight, resp, now, nextToken, issued,
                    requests, gin, sin, sout >>

GuardInit ==
    /\ InitApp
    /\ gin \in GuardInputs
    /\ gout = NoResult
    /\ sin = NoStreakInput /\ sout = NoResult

GuardSpec == GuardInit /\ [][guard_apply]_vars

-----------------------------------------------------------------------------
(* youth_list: the streak of each listed youth *)

Range(seq) == { seq[i] : i \in 1..Len(seq) }

\* the two .filter(...in_(...)) clauses of the pairs query
FilterPairs(pairs, cedulas, service_ids) ==
    { p \in pairs : p[1] \in Range(cedulas) /\ p[2] \in Range(service_ids) }

\* attended.get(c, set())
Attended(pairs, c) == { p[2] : p \in { q \in pairs : q[1] = c } }

\* variant: the inner loop without its break
RECURSIVE StreakLoopNoBreak(_, _)
StreakLoopNoBreak(service_ids, aset) ==
    IF service_ids = << >> THEN 0
    ELSE (IF Head(service_ids) \in aset THEN 1 ELSE 0)
         + StreakLoopNoBreak(Tail(service_ids), aset)

\* the inner loop: count from the newest service until the first miss
RECURSIVE StreakLoop(_, _)
StreakLoop(service_ids, aset) ==
    IF service_ids = << >> THEN 0
    ELSE IF Head(service_ids) \in aset
         THEN 1 + StreakLoop(Tail(service_ids), aset)
         ELSE 0

\* variant: the else branch assigns nothing
NoStreaks(cedulas) == << >>

\* the else branch: every listed youth gets 0
ZeroStreaks(cedulas) == [ c \in Range(cedulas) |-> 0 ]

\* the streaks dict, from the newest-first service ids, the cedulas of the
\* listed rows and the (cedula, service id) pairs of the attendance table
compute_streaks(service_ids, cedulas, allpairs) ==
    IF service_ids # << >> /\ cedulas # << >>
    THEN LET pairs == FilterPairs(allpairs, cedulas, service_ids) IN
         [ c \in Range(cedulas) |-> StreakLoop(service_ids, Attended(pairs, c)) ]
    ELSE ZeroStreaks(cedulas)

StreakServiceIds == 1..NumStreakServices

\* sequences of distinct service ids: what a query on the primary key returns
DistinctSeqs(S) ==
    UNION { { q \in [1..n -> S] : \A i, j \in 1..n : i # j => q[i] # q[j] } :
            n \in 0..Cardinality(S) }

StreakInputs ==
    { [ drawn |-> TRUE, service_ids |-> ids, cedulas |-> <<Y1, Y2>>,
        pairs |-> m ] :
      ids \in DistinctSeqs(StreakServiceIds),
      m \in SUBSET ({Y1, Y2} \X StreakServiceIds) }

streak_apply ==
    /\ sin.drawn
    /\ ~sout.done
    /\ sout' = [ done |-> TRUE,
                 result |-> compute_streaks(sin.service_ids, sin.cedulas, sin.pairs) ]
    /\ UNCHANGED << dbVars, session, inflight, resp, now, nextToken, issued,
                    requests, gin, gout, sin >>

StreakInit ==
    /\ InitApp
    /\ sin \in StreakInputs
    /\ sout = NoResult
    /\ gin = NoGuardInput /\ gout = NoResult

StreakSpec == StreakInit /\ [][streak_apply]_vars

-----------------------------------------------------------------------------
(* youth_list for ADMIN/ROOT: the recent_services query feeding the streaks *)

\* variant: the query without its filter on starts_at
EligibleAny(starts, t) == DOMAIN starts

\* .filter(Service.starts_at <= datetime.now())
Eligible(starts, t) == { id \in DOMAIN starts : starts[id] <= t }

\* .order_by(Service.starts_at.desc()): every order the database may return;
\* rows with equal starts_at come in any order
NewestFirst(starts, S) ==
    { q \in [1..Cardinality(S) -> S] :
        \A i, j \in 1..Cardinality(S) :
            i < j => q[i] # q[j] /\ starts[q[i]] >= starts[q[j]] }

\* .limit(n)
Limit(q, n) == SubSeq(q, 1, IF Len(q) < n THEN Len(q) ELSE n)

\* service_ids = [s.id for s in recent_services], for a service table given
\* as id -> starts_at, the clock t and the configured limit n
recent_services(starts, t, n) ==
    { Limit(q, n) : q \in NewestFirst(starts, Eligible(starts, t)) }

ListServiceIds == 1..NumListServices

\* start times before, at and after the clock
StartOffsets == {-1, 0, 1}

\* MAX_SERVICES_FOR_STREAK is read from the environment: a small value and
\* the default
ListLimits == {SmallLimit, MAX_SERVICES_FOR_STREAK}

\* the marks of Y1 are arbitrary, Y2 has none or all
ListPairs ==
    { ({Y1} \X a) \cup ({Y2} \X b) :
      a \in SUBSET ListServiceIds, b \in {{}, ListServiceIds} }

ListInputs ==
    { [ drawn |-> TRUE, starts |-> st, limit |-> n, cedulas |-> <<Y1, Y2>>,
        pairs |-> m ] :
      st \in [ListServiceIds -> { now + d : d \in StartOffsets }],
      n \in ListLimits,
      m \in ListPairs }

youth_list_apply ==
    /\ sin.drawn
    /\ ~sout.done
    /\ \E ids \in recent_services(sin.starts, now, sin.limit) :
          sout' = [ done |-> TRUE,
                    service_ids |-> ids,
                    result |-> compute_streaks(ids, sin.cedulas, sin.pairs) ]
    /\ UNCHANGED << dbVars, session, inflight, resp, now, nextToken, issued,
                    requests, gin, gout, sin >>

ListInit ==
    /\ InitApp
    /\ sin \in ListInputs
    /\ sout = NoResult
    /\ gin = NoGuardInput /\ gout = NoResult

ListSpec == ListInit /\ [][youth_list_apply]_vars

-----------------------------------------------------------------------------
(* Properties of the session guard *)

\* the token written by the user's most recent successful login
Latest(u) == IF issued[u] = << >> THEN None ELSE issued[u][Len(issued[u])]

\* the clients whose next request would pass the guard as user u
Passing(u) ==
    { c \in Clients : session[c].user_id = u /\ Guard(c).outcome = "Authenticated" }

\* C1: per principal at most one session passes the guard, a session that
\* passes holds the token of the principal's most recent successful login,
\* and a request of an authenticated session with any other token is
\* answered by a forced logout (session cleared, redirect to login).
C1_SingleValidToken ==
    \A u \in UserIds :
        /\ Cardinality(Passing(u)) <= 1
        /\ \A c \in Clients :
              (session[c].user_id = u /\ Authenticated(c)) =>
                  IF session[c].session_token = Latest(u) /\ Latest(u) # None
                  THEN TRUE
                  ELSE /\ Guard(c).redirect
                       /\ Guard(c).session = EmptySession
                       /\ Guard(c).outcome # "Authenticated"

\* a stale session was just logged out by force while the session of the
\* later login still passes
C1_Witness ==
    /\ resp.guard = "ForcedLogoutSuperseded"
    /\ \E c \in Clients \ {resp.client} :
          /\ Guard(c).outcome = "Authenticated"
          /\ Len(issued[session[c].user_id]) >= 2

\* the drawn request and the guard's answer to it
GinLast == gin.session.last_activity
GinTokensMatch ==
    /\ gin.session.session_token # None
    /\ gin.user_token # None
    /\ gin.session.session_token = gin.user_token
GinNonIdle ==
    \/ GinLast = NoLast
    \/ GinLast[1] = "iso" /\ gin.now - GinLast[2] <= IDLE_MINUTES
Answered == gin.drawn /\ gout.done /\ gin.authenticated

\* C2: for an authenticated, non-idle request the guard answers Authenticated
\* exactly when both tokens are present and equal, and otherwise
\* ForcedLogoutSuperseded with the session cleared and a redirect to login;
\* two absent tokens do not match.
C2_TokenRule ==
    (Answered /\ GinNonIdle) =>
        IF GinTokensMatch
        THEN /\ gout.result.outcome = "Authenticated"
             /\ ~gout.result.redirect
        ELSE /\ gout.result.outcome = "ForcedLogoutSuperseded"
             /\ gout.result.session = EmptySession
             /\ gout.result.redirect
             /\ gout.result.flash = "elsewhere"

\* both tokens absent: the request was refused
C2_Witness ==
    /\ Answered /\ GinNonIdle
    /\ gin.session.session_token = None
    /\ gin.user_token = None
    /\ gout.result.outcome = "ForcedLogoutSuperseded"

\* C3: a request of an authenticated principal whose session has no
\* last-activity timestamp is never allowed through, even with a matching
\* token.
C3_MissingTimestampFailsClosed ==
    (Answered /\ GinLast = NoLast) =>
        /\ gout.result.outcome # "Authenticated"
        /\ gout.result.redirect

\* C4: a request of an authenticated principal whose last-activity value
\* does not parse is answered like an idle one, whatever its token: the
\* session is cleared, the request is redirected to login and not allowed.
C4_MalformedTimestamp ==
    (Answered /\ GinLast = BadLast) =>
        /\ gout.result.redirect
        /\ gout.result.session = EmptySession
        /\ gout.result.outcome # "Authenticated"

\* an unparseable timestamp with a matching token was refused
C4_Witness ==
    /\ Answered
    /\ GinLast = BadLast
    /\ GinTokensMatch
    /\ gout.result.redirect

\* C6: the idle logout happens exactly when now - last_activity is strictly
\* greater than the threshold; at the threshold a request with the valid
\* token is allowed.
C6_StrictIdle ==
    (Answered /\ GinLast[1] = "iso") =>
        /\ (gout.result.outcome = "ForcedLogoutIdle")
              <=> (gin.now - GinLast[2] > IDLE_MINUTES)
        /\ (gin.now - GinLast[2] = IDLE_MINUTES /\ GinTokensMatch)
              => gout.result.outcome = "Authenticated"

\* exactly at the threshold, with the valid token: allowed
C6_Witness ==
    /\ Answered
    /\ GinLast[1] = "iso"
    /\ gin.now - GinLast[2] = IDLE_MINUTES
    /\ GinTokensMatch
    /\ gout.result.outcome = "Authenticated"

\* C5: once two logins of a principal have written their tokens, exactly one
\* of the issued tokens is the stored one, at most one session passes the
\* guard, a session that passes holds the stored token, and the session that
\* holds it passes unless it is idle.
C5_LoginRace ==
    \A u \in UserIds :
        (u \in DOMAIN users /\ Len(issued[u]) >= 2) =>
            LET stored == users[u].session_token IN
            /\ Cardinality({ i \in 1..Len(issued[u]) : issued[u][i] = stored }) = 1
            /\ Cardinality(Passing(u)) <= 1
            /\ \A c \in Passing(u) : session[c].session_token = stored
            /\ \A c \in Clients :
                  ( /\ session[c].user_id = u
                    /\ session[c].session_token = stored
                    /\ session[c].last_activity[1] = "iso"
                    /\ now - session[c].last_activity[2] <= IDLE_MINUTES )
                  => c \in Passing(u)

\* client A wrote its token first and set up its session last: A holds the
\* older token and is refused, B holds the stored one
C5_Witness ==
    /\ \A c \in Clients : Idle(c) /\ session[c].user_id = 2
    /\ Len(issued[2]) = 2
    /\ session["A"].session_token = issued[2][1]
    /\ session["B"].session_token = issued[2][2]
    /\ session["A"].last_activity[1] = "iso"
    /\ session["B"].last_activity[1] = "iso"
    /\ session["A"].last_activity[2] > session["B"].last_activity[2]
    /\ Guard("A").outcome = "ForcedLogoutSuperseded"
    /\ Guard("B").outcome = "Authenticated"

-----------------------------------------------------------------------------
(* Properties of the streak computation *)

\* the length of the longest prefix of ids that lies within aset
LongestPrefix(ids, aset) ==
    CHOOSE k \in 0..Len(ids) :
        /\ \A i \in 1..k : ids[i] \in aset
        /\ k = Len(ids) \/ ids[k + 1] \notin aset

SinMarks(c) == { sid \in StreakServiceIds : <<c, sid>> \in sin.pairs }

\* C7: the streak of every listed youth is the length of the longest prefix
\* of the newest-first service list in which the youth has a mark for every
\* service; counting stops at the first miss and does not resume.
C7_StreakIsLongestPrefix ==
    (sin.drawn /\ sout.done) =>
        /\ DOMAIN sout.result = Range(sin.cedulas)
        /\ \A c \in Range(sin.cedulas) :
              sout.result[c] = LongestPrefix(sin.service_ids, SinMarks(c))

\* newest and third-newest attended, second-newest missed: the streak is 1;
\* the other youth missed the newest service and has marks: the streak is 0
C7_Witness ==
    /\ sin.drawn /\ sout.done
    /\ Len(sin.service_ids) >= 3
    /\ sin.service_ids[1] \in SinMarks(Y1)
    /\ sin.service_ids[2] \notin SinMarks(Y1)
    /\ sin.service_ids[3] \in SinMarks(Y1)
    /\ sout.result[Y1] = 1
    /\ sin.service_ids[1] \notin SinMarks(Y2)
    /\ sin.service_ids[2] \in SinMarks(Y2)
    /\ sout.result[Y2] = 0

\* C8: with an empty service list every listed youth gets streak 0, whatever
\* marks exist.
C8_EmptyServiceList ==
    (sin.drawn /\ sout.done /\ sin.service_ids = << >>) =>
        /\ DOMAIN sout.result = Range(sin.cedulas)
        /\ \A c \in Range(sin.cedulas) : sout.result[c] = 0

\* no eligible service, marks for both youths
C8_Witness ==
    /\ sin.drawn /\ sout.done
    /\ sin.service_ids = << >>
    /\ SinMarks(Y1) # {} /\ SinMarks(Y2) # {}
    /\ sout.result[Y1] = 0 /\ sout.result[Y2] = 0

-----------------------------------------------------------------------------
(* Properties of the attendance table *)

SamePair(a, b) ==
    a.youth_cedula = b.youth_cedula /\ a.service_id = b.service_id

\* a registration of client c whose pair already has a mark is committing
DuplicateCommit(c) ==
    /\ inflight[c].op = "register"
    /\ inflight'[c].op = "none"
    /\ UniqueViolation(inflight[c].service, inflight[c].cedula)

\* C9: there is at most one attendance mark per (youth, service) pair, also
\* when two clients register the same pair concurrently, and the commit of
\* a registration whose pair already has a mark adds no mark and leaves the
\* marks that exist as they are.
C9_OneMarkPerPair ==
    /\ [](\A a, b \in attendance : SamePair(a, b) => a = b)
    /\ [][\A c \in Clients : DuplicateCommit(c) => attendance' = attendance]_vars

\* both clients had the registration of Y1 in flight; root's commit made
\* the mark, sara's commit was refused
C9_Witness ==
    /\ requests = 2
    /\ resp = Response("B", "register", "Authenticated", "already")
    /\ Y1 \in DOMAIN youth /\ 2 \in DOMAIN users
    /\ { a \in attendance : a.youth_cedula = Y1 } =
          { AttendanceRow(nextAttId - 1, 1, Y1, 1, now) }

\* the mark with the id of a, after the step
Kept(a) == { b \in attendance' : b.id = a.id }

\* C10 as stated: no step changes the youth, the service, the registering
\* user or the timestamp of a mark that exists.
C10_MarksNeverMutated ==
    [][\A a \in attendance : \A b \in Kept(a) : b = a]_vars

\* C10 as amended: no step changes the youth, the service or the timestamp
\* of a mark that exists, and the registering user of a mark changes only in
\* the step that deletes that user, to the id of the system user.
C10_MarksKeepAllButRegistrar ==
    [][\A a \in attendance : \A b \in Kept(a) :
          /\ b.youth_cedula = a.youth_cedula
          /\ b.service_id = a.service_id
          /\ b.registered_at = a.registered_at
          /\ b.registered_by # a.registered_by =>
                /\ a.registered_by \in DOMAIN users
                /\ a.registered_by \notin DOMAIN users'
                /\ b.registered_by \in DOMAIN users'
                /\ users'[b.registered_by].username = SYSTEM_USER]_vars

\* sara was deleted and a mark she took now names the system user, while a
\* mark root took still names root
C10_Witness ==
    /\ 2 \notin DOMAIN users
    /\ \E a \in attendance : a.registered_by \in SystemUsers
    /\ \E a \in attendance : a.registered_by = 1

\* the marks of the state that the step removes
Removed == { a \in attendance : Kept(a) = {} }

\* C11: a mark leaves the table only in the step that deletes its youth,
\* that step removes every mark of the youth, and no mark names a youth
\* that is not in the youth table.
C11_MarksLeaveWithYouth ==
    /\ [](\A a \in attendance : a.youth_cedula \in DOMAIN youth)
    /\ [][\A a \in Removed :
             /\ a.youth_cedula \in DOMAIN youth
             /\ a.youth_cedula \notin DOMAIN youth'
             /\ \A b \in attendance' : b.youth_cedula # a.youth_cedula]_vars

\* root deleted Y1: its mark went with it, the mark of Y2 is still there
C11_Witness ==
    /\ resp = Response("A", "youth_delete", "Authenticated", "deleted")
    /\ Y1 \notin DOMAIN youth
    /\ nextAttId - 1 > Cardinality(attendance)
    /\ \E a \in attendance : a.youth_cedula = Y2

-----------------------------------------------------------------------------
(* Properties of the youth table *)

\* the step answers a request to the named route
Answers(route) == resp'.op = route /\ inflight' = inflight

RowsKept == \A k \in DOMAIN youth : k \in DOMAIN youth' /\ youth'[k] = youth[k]

\* C12: a youth_new request leaves every existing row as it is; answered
\* "created" it has added exactly one identifier that was not there, and
\* answered otherwise (the identifier exists, or the form is invalid) it
\* leaves the table unchanged; a youth_edit request leaves the set of
\* identifiers unchanged.
C12_YouthIdUniqueImmutable ==
    [][/\ Answers("youth_new") =>
             /\ RowsKept
             /\ IF resp'.result = "created"
                THEN Cardinality(DOMAIN youth') = Cardinality(DOMAIN youth) + 1
                ELSE youth' = youth
       /\ Answers("youth_edit") => DOMAIN youth' = DOMAIN youth]_vars

\* sara sent the form of a youth that exists, after root had edited a row
C12_Witness ==
    /\ resp = Response("B", "youth_new", "Authenticated", "exists")
    /\ \E k \in DOMAIN youth : youth[k].full_name = "Ana Maria"

-----------------------------------------------------------------------------
(* Properties of the guard inside the routes *)

\* the step handles the start of a request of client c
Requests(c) ==
    /\ Idle(c)
    /\ now' = now
    /\ \/ resp'.client = c /\ resp' # resp
       \/ inflight'[c] # inflight[c]
       \/ session'[c] # session[c]

\* minutes since the session's last_activity, when it holds a timestamp
SinceLast(c) == now - session[c].last_activity[2]

Timed(c) == HasLast(session[c]) /\ fromisoformat(session[c].last_activity).ok

\* C13: a request the guard allows leaves the session's last_activity at
\* the time of the request, and a request made no more than IDLE_MINUTES
\* after the session's last_activity is not logged out for inactivity; so
\* the timeout runs from the latest allowed request.
C13_AllowedRequestRefreshes ==
    [][\A c \in Clients : Requests(c) =>
          /\ Guard(c).outcome = "Authenticated" =>
                session'[c].last_activity = isoformat(now)
          /\ (Timed(c) /\ SinceLast(c) <= IDLE_MINUTES) =>
                ~(resp'.client = c /\ resp'.guard = "ForcedLogoutIdle")]_vars

\* half an hour after time 0 a session is still let through: its request a
\* quarter of an hour earlier had moved last_activity
C13_Witness ==
    /\ now = 2 * IDLE_MINUTES
    /\ nextToken = 2
    /\ resp.op = "dashboard" /\ resp.guard = "Authenticated"
    /\ session[resp.client].last_activity = isoformat(now)

-----------------------------------------------------------------------------
(* Properties of the order of the guard's rules *)

GinIdle == GinLast[1] = "iso" /\ gin.now - GinLast[2] > IDLE_MINUTES

\* C14: a request of an authenticated principal that is idle beyond the
\* threshold and whose token is stale or absent is answered
\* ForcedLogoutIdle with the inactivity notice, not ForcedLogoutSuperseded.
C14_IdleRuleFirst ==
    (Answered /\ GinIdle /\ ~GinTokensMatch) =>
        /\ gout.result.outcome = "ForcedLogoutIdle"
        /\ gout.result.flash = "inactivity"
        /\ gout.result.session = EmptySession
        /\ gout.result.redirect

\* an idle request with a token that differs from the stored one
C14_Witness ==
    /\ Answered /\ GinIdle
    /\ gin.session.session_token # None
    /\ gin.user_token # None
    /\ gin.session.session_token # gin.user_token
    /\ gout.result.outcome = "ForcedLogoutIdle"

-----------------------------------------------------------------------------
(* Properties of requests without a logged-in user *)

ForcedLogouts ==
    {"ForcedLogoutIdle", "ForcedLogoutSuperseded", "ForcedLogoutMalformed"}

\* C15: a request of a client with no logged-in user passes the guard as
\* Unauthenticated and the guard leaves its session as it is; and the
\* client that was last answered with a forced logout has no logged-in
\* user, so the guard lets its next request pass without a redirect.
C15_NoRedirectLoop ==
    /\ [](\A c \in Clients :
            (resp.client = c /\ resp.guard \in ForcedLogouts) =>
                /\ ~Authenticated(c)
                /\ Guard(c).outcome = "Unauthenticated"
                /\ ~Guard(c).redirect)
    /\ [][\A c \in Clients : (Requests(c) /\ ~Authenticated(c)) =>
             /\ session'[c] = session[c]
             /\ (resp' # resp /\ resp'.client = c) =>
                   resp'.guard = "Unauthenticated"
             /\ inflight'[c].op # "none" =>
                   inflight'[c].guard = "Unauthenticated"]_vars

\* a client asks for the dashboard and is sent to the login page by
\* login_required, not by the guard; the session of the user's latest login
\* did not log out (the token is still stored), the guard ended it
C15_Witness ==
    /\ resp.op = "dashboard" /\ resp.guard = "Unauthenticated"
    /\ resp.result = "login"
    /\ \A c \in Clients : Idle(c) /\ session[c] = EmptySession
    /\ \E u \in DOMAIN users :
          /\ Len(issued[u]) = 2
          /\ users[u].session_token = issued[u][2]
-----------------------------------------------------------------------------
(* C16: the services a streak is computed over *)

ListEligible == { id \in DOMAIN sin.starts : sin.starts[id] <= now }

ListMarks(c) == { sid \in DOMAIN sin.starts : <<c, sid>> \in sin.pairs }

\* C16: the services used for the streaks are exactly the newest services
\* whose start time is at or before the clock, newest first and at most the
\* configured maximum of them; a service that starts later neither breaks nor
\* extends a streak (the streak is the longest attended prefix of the started
\* services only), and no streak exceeds the configured maximum.
C16_OnlyStartedServicesCapped ==
    (sin.drawn /\ sout.done) =>
        LET ids == sout.service_ids
            n == Cardinality(ListEligible)
        IN  /\ Range(ids) \subseteq ListEligible
            /\ \A i, j \in 1..Len(ids) :
                  i < j => /\ ids[i] # ids[j]
                           /\ sin.starts[ids[i]] >= sin.starts[ids[j]]
            /\ Len(ids) = IF n < sin.limit THEN n ELSE sin.limit
            /\ \A x \in ListEligible \ Range(ids), y \in Range(ids) :
                  sin.starts[x] <= sin.starts[y]
            /\ \A c \in Range(sin.cedulas) :
                  /\ sout.result[c] =
                        LongestPrefix(ids, ListMarks(c) \cap ListEligible)
                  /\ sout.result[c] <= sin.limit

\* more started services than the small limit and one service that starts
\* later, all attended by the first youth: the streak is the limit
C16_Witness ==
    /\ sin.drawn /\ sout.done
    /\ sin.limit = SmallLimit
    /\ Cardinality(ListEligible) > SmallLimit
    /\ \E f \in DOMAIN sin.starts : sin.starts[f] > now /\ <<Y1, f>> \in sin.pairs
    /\ ListMarks(Y1) = DOMAIN sin.starts
    /\ sout.result[Y1] = SmallLimit
    /\ sout.result[Y2] = 0

-----------------------------------------------------------------------------
(* C17: role gates *)

\* the roles each route's decorator lists
AllowList ==
    [ youth_new |-> {"OPERATIVE", "ADMIN", "ROOT"},
      youth_edit |-> {"OPERATIVE", "ADMIN", "ROOT"},
      youth_delete |-> {"ROOT"},
      admin_services |-> {"ADMIN", "ROOT"},
      set_service |-> {"OPERATIVE", "ADMIN", "ROOT"},
      register |-> {"OPERATIVE", "ADMIN", "ROOT"},
      admin_users |-> {"ROOT"},
      reset_password |-> {"ROOT"},
      admin_user_delete |-> {"ROOT"} ]

\* the role of the user the session of c names
RoleOf(c) == users[session[c].user_id].role

\* a user table without the tokens, which login, logout and a password
\* reset write
UserRows(us) == [ u \in DOMAIN us |-> [ us[u] EXCEPT !.session_token = None ] ]

\* C17: a request to a role-gated route by an authenticated session whose
\* user's role is not in the route's list is answered with the redirect to
\* the dashboard and leaves the database and the selected service as they
\* were, and a request whose role is in the list is never answered so; a
\* step that changes the services table is a request of an ADMIN or a ROOT,
\* and a step that removes a youth, or changes the users table other than a
\* token, is a request of a ROOT.
C17_RoleGates ==
    [][\A c \in Clients :
          (inflight' = inflight /\ resp'.client = c /\ Idle(c)
           /\ resp'.op \in DOMAIN AllowList
           /\ Guard(c).outcome = "Authenticated" /\ ~Guard(c).redirect) =>
              /\ RoleOf(c) \notin AllowList[resp'.op] =>
                    /\ resp'.result = "forbidden"
                    /\ UNCHANGED dbVars
                    /\ session'[c].selected_service_id =
                          session[c].selected_service_id
              /\ RoleOf(c) \in AllowList[resp'.op] =>
                    resp'.result # "forbidden"
              /\ services' # services => RoleOf(c) \in {"ADMIN", "ROOT"}
              /\ (DOMAIN youth' # DOMAIN youth /\ resp'.op = "youth_delete") =>
                    RoleOf(c) = "ROOT"
              /\ UserRows(users') # UserRows(users) => RoleOf(c) = "ROOT"]_vars

\* the OPERATIVE was turned away from the services page after root had
\* created a service
C17_Witness ==
    /\ resp = Response("B", "admin_services", "Authenticated", "forbidden")
    /\ users[2].role = "OPERATIVE"
    /\ DOMAIN services = {1}
    /\ services[1].title = "Culto" /\ services[1].starts_at = now

-----------------------------------------------------------------------------
(* C18: marks and the selected active service *)

Active(sid) == sid \in DOMAIN services /\ services[sid].is_active

\* the marks a step adds
Added == { b \in attendance' : \A a \in attendance : a.id # b.id }

\* C18: a registration passes its checks only when the service selected in
\* its session is active at that moment, and every mark added is the insert
\* of such a registration, for the service and youth it checked; a session's
\* selection changes only to a service that is active; a registration
\* attempted while the selected service is inactive gets no further than
\* the check, so it adds no mark.
C18_MarksOnlyForActiveSelected ==
    [][/\ \A c \in Clients :
             (Idle(c) /\ inflight'[c].op = "register") =>
                 /\ Active(inflight'[c].service)
                 /\ session[c].selected_service_id = inflight'[c].service
       /\ \A b \in Added :
             \E c \in Clients :
                 /\ inflight[c].op = "register" /\ inflight'[c].op = "none"
                 /\ b.service_id = inflight[c].service
                 /\ b.youth_cedula = inflight[c].cedula
                 /\ b.registered_by = inflight[c].user
       /\ \A c \in Clients :
             session'[c].selected_service_id
                   \notin {None, session[c].selected_service_id} =>
                 Active(session'[c].selected_service_id)
       /\ \A c \in Clients :
             (Idle(c) /\ session[c].selected_service_id # None
              /\ ~Active(session[c].selected_service_id)) =>
                 /\ inflight'[c].op # "register"
                 /\ (resp' # resp /\ resp'.client = c) => Added = {}]_vars

\* the service was selected and then toggled inactive; the registration
\* attempted afterwards was sent back to the selection page, and no mark
\* was added
C18_Witness ==
    /\ resp = Response("B", "register", "Authenticated", "no_service")
    /\ session["B"].selected_service_id = 1
    /\ 1 \in DOMAIN services /\ ~services[1].is_active
    /\ requests = MaxRequests
    /\ attendance = {}
    /\ nextAttId = 1

-----------------------------------------------------------------------------
(* C19: who clears the stored token *)

\* the step is the write of a logout request of c
LogsOut(c) == inflight[c].op = "logout" /\ inflight'[c].op = "none"

\* C19: a logout changes the stored token of a user only when the session
\* of that request holds the token stored at that moment, so a session that
\* a newer login has superseded never clears the newer token; a request
\* that ends in a forced logout leaves every stored token as it is.
C19_LogoutClearsOwnTokenOnly ==
    [][/\ \A c \in Clients : LogsOut(c) =>
             \A u \in DOMAIN users :
                 users'[u].session_token # users[u].session_token =>
                     session[c].session_token = users[u].session_token
       /\ (resp' # resp /\ resp'.guard \in ForcedLogouts) =>
             users' = users]_vars

-----------------------------------------------------------------------------
(* C20: a cleared token rejects every session *)

\* the step is a password reset that went through
Resets == /\ inflight' = inflight /\ now' = now
          /\ resp'.op = "reset_password" /\ resp'.result = "password_reset"

\* the step is the first half of a successful login of user u
LogsIn(u) ==
    \E c \in Clients :
        Idle(c) /\ inflight'[c].op = "login" /\ inflight'[c].user = u

\* C20: the write of a logout leaves the stored token of its user absent,
\* and so does a password reset for the user it names; while the stored
\* token of a user is absent, a request of any session of that user,
\* whatever token it carries, is answered with a forced logout; an absent
\* token is replaced only by a successful login of that user.
C20_ClearedTokenRejectsAll ==
    /\ [](\A c \in Clients :
             (Authenticated(c) /\ UserToken(c) = None) =>
                 /\ Guard(c).redirect
                 /\ Guard(c).outcome \in ForcedLogouts
                 /\ Guard(c).session = EmptySession)
    /\ [][/\ \A c \in Clients :
                (LogsOut(c) /\ inflight[c].user \in DOMAIN users) =>
                    users'[inflight[c].user].session_token = None
          /\ Resets =>
                \E u \in DOMAIN users :
                    /\ users'[u].session_token = None
                    /\ \A v \in DOMAIN users \ {u} : users'[v] = users[v]
          /\ \A u \in DOMAIN users :
                (users[u].session_token = None
                 /\ users'[u].session_token # None) => LogsIn(u)]_vars

\* root logged in once and reset its own password; the next request of the
\* session, which carries the only token ever issued, was force-logged-out
C20_Witness ==
    /\ resp = Response("A", "dashboard", "ForcedLogoutSuperseded", "login")
    /\ issued[1] = <<1>>
    /\ nextToken = 2
    /\ users[1].session_token = None
    /\ session["A"] = EmptySession

-----------------------------------------------------------------------------
(* C21: no record refers to a missing user *)

\* every mark's registering user and every service's creator exists
UsersReferencedExist ==
    /\ \A a \in attendance : a.registered_by \in DOMAIN users
    /\ \A sid \in DOMAIN services : services[sid].created_by \in DOMAIN users

\* the users a step removes
Deleted == DOMAIN users \ DOMAIN users'

\* a deletion that went through removes one user that is not the system
\* user and hands each of its marks to a system user; no step removes a
\* system user
DeletionReassigns ==
    /\ \A u \in Deleted : users[u].username # SYSTEM_USER
    /\ (Answers("admin_user_delete") /\ resp'.result = "deleted") =>
          /\ Cardinality(Deleted) = 1
          /\ \A a \in attendance : a.registered_by \in Deleted =>
                \A b \in Kept(a) :
                    /\ b.registered_by \in DOMAIN users'
                    /\ users'[b.registered_by].username = SYSTEM_USER
    /\ Deleted # {} =>
          Answers("admin_user_delete") /\ resp'.result = "deleted"

\* the step is a user deletion that did not go through
DeletionFails == Answers("admin_user_delete") /\ resp'.result # "deleted"

\* C21 as stated: no record refers to a missing user, a deletion reassigns
\* the marks to the system user, the system user is never deleted, and a
\* deletion that does not complete leaves users and marks unchanged.
C21_FailedDeletionChangesNothing ==
    /\ []UsersReferencedExist
    /\ [][/\ DeletionReassigns
          /\ DeletionFails => users' = users /\ attendance' = attendance]_vars

\* C21: no record refers to a missing user, a deletion reassigns the marks
\* to the system user, the system user is never deleted, and a deletion
\* that does not complete leaves the marks and every existing user row
\* unchanged; the only row it can add is the system user.
C21_NoRecordRefersToMissingUser ==
    /\ []UsersReferencedExist
    /\ [][/\ DeletionReassigns
          /\ DeletionFails =>
                /\ attendance' = attendance
                /\ \A u \in DOMAIN users :
                      u \in DOMAIN users' /\ users'[u] = users[u]
                /\ \A u \in DOMAIN users' \ DOMAIN users :
                      users'[u] = SystemUserRow]_vars

\* root tried to delete sara, who created the service and took a mark: the
\* deletion failed, sara and the mark are as before, the system user exists
C21_Witness ==
    /\ resp = Response("A", "admin_user_delete", "Authenticated", "failed")
    /\ 2 \in DOMAIN users /\ users[2].username = "sara"
    /\ 1 \in DOMAIN services /\ services[1].created_by = 2
    /\ \E a \in attendance : a.registered_by = 2
    /\ \E u \in DOMAIN users : users[u] = SystemUserRow

====
